---- MODULE Spec2Model ----
(***************************************************************************)
(* Model of the emulation-thread lifecycle and the cross-thread callback   *)
(* queue of AndroidHostInterface (android_host_interface.cpp).             *)
(*                                                                         *)
(* Threads: "ui" is the host thread that calls StartEmulationThread and    *)
(* StopEmulationThread and also submits callbacks; "bg" only submits.      *)
(* The emulation (worker) thread is modelled by the program counter wpc.   *)
(* Every shared-memory access or lock operation of the source is one step. *)
(***************************************************************************)
EXTENDS Integers, Sequences, FiniteSets, TLC

\* ---------------------------------------------------------------- bounds
MaxSubmits == 2        \* RunOnEmulationThread calls made by each thread
MaxCycles == 2         \* StartEmulationThread calls made by the ui thread
MaxNested == 1         \* RunOnEmulationThread calls made from inside callbacks
MaxSpeed == 130        \* largest m_speed considered, in percent
SpeedUnit == 2         \* m_speed is held in steps of 1/SpeedUnit percent

\* Thresholds of DrawFPSWindow, in percent.
SlowLimit == 90
FastLimit == 110

Threads == {"ui", "bg"}
Entries == (Threads \X (1..MaxSubmits)) \cup ({"worker"} \X (1..MaxNested))
NoEntry == <<"none", 0>>

VARIABLES
  joinable,        \* m_emulation_thread.joinable()
  stop_request,    \* m_emulation_thread_stop_request
  start_result,    \* m_emulation_thread_start_result
  started,         \* m_emulation_thread_started (event state: signalled?)
  mutex,           \* m_callback_mutex: "free" or the name of the holder
  queue,           \* m_callback_queue
  wpc,             \* position of the emulation thread ("none": no thread)
  callback,        \* local `callback` of the drain loop
  imgui,           \* an ImGui context exists
  display,         \* m_display is non-null
  audio,           \* m_audio_stream is non-null
  system,          \* m_system is non-null
  pc,              \* position of each calling thread
  blocking,        \* `blocking` argument of each thread's current call
  nsub,            \* number of RunOnEmulationThread calls made per thread
  cycles,          \* number of StartEmulationThread calls made
  m_speed,         \* m_speed, in units of 1/SpeedUnit percent
  fps_window,      \* what DrawFPSWindow last drew for the speed figure
  nested,          \* number of calls made from inside callbacks on the worker
  cb_blocking,     \* `blocking` argument of the worker's current nested call
  iter_log,        \* history: reads and calls of the current loop iteration
  run_after_stop,  \* history: RunFrame calls in the loop since the stop request
  present_after_stop, \* history: presents in the loop since the stop request
  \* ---- history variables (observations only, never read by the actions)
  execs,           \* how often each entry's function has begun executing
  ret,             \* what each thread's last completed call returned
  fail_step,       \* the start-up step that failed in this cycle, or "none"
  signals,         \* Signal() calls of the worker in this cycle
  result_written,  \* the worker stored the start result in this cycle
  observed_stop,   \* the worker has loaded stop_request = true in this cycle
  early,           \* entries whose call was made before observed_stop
  cycle_subs       \* ui's non-blocking queued submissions since Start returned

vars == <<joinable, stop_request, start_result, started, mutex, queue, wpc,
          callback, imgui, display, audio, system, pc, blocking, nsub, cycles,
          execs, ret, fail_step, signals, result_written, observed_stop,
          early, cycle_subs, m_speed, fps_window, iter_log,
          run_after_stop, present_after_stop, nested, cb_blocking>>

shared == <<joinable, stop_request, start_result, started>>
res == <<imgui, display, audio, system>>
startHist == <<fail_step, signals, result_written>>
subHist == <<early, cycle_subs>>
overlay == <<m_speed, fps_window>>
loopHist == <<iter_log, run_after_stop, present_after_stop>>
reent == <<nested, cb_blocking>>

\* ------------------------------------------------------------ collaborators
\* IsEmulationThreadRunning(): a worker thread object exists (spawned, not joined).
IsEmulationThreadRunning == joinable

\* m_emulation_thread_started: the ready signal.  Signal() sets it, Wait()
\* blocks until it is set and consumes it (one signal per start cycle).
EventSignal(ev) == TRUE
EventIsSet(ev) == ev = TRUE
EventAfterWait(ev) == FALSE

CurEntry(t) == <<t, nsub[t]>>

InitCore ==
  /\ joinable = FALSE
  /\ stop_request = FALSE
  /\ start_result = FALSE
  /\ started = FALSE
  /\ mutex = "free"
  /\ queue = <<>>
  /\ wpc = "none"
  /\ callback = NoEntry
  /\ imgui = FALSE
  /\ display = FALSE
  /\ audio = FALSE
  /\ system = FALSE
  /\ pc = [t \in Threads |-> "idle"]
  /\ blocking = [t \in Threads |-> FALSE]
  /\ nsub = [t \in Threads |-> 0]
  /\ cycles = 0
  /\ execs = [e \in Entries |-> 0]
  /\ ret = [t \in Threads |-> "none"]
  /\ fail_step = "none"
  /\ signals = 0
  /\ result_written = FALSE
  /\ observed_stop = FALSE
  /\ early = {}
  /\ cycle_subs = {}
  /\ iter_log = <<>>
  /\ run_after_stop = 0
  /\ present_after_stop = 0
  /\ nested = 0
  /\ cb_blocking = FALSE

NotDrawn == [speed |-> 0, rounded |-> 0, band |-> "none"]

Init ==
  /\ InitCore
  /\ m_speed = 0
  /\ fps_window = NotDrawn

\* ------------------------------------------------- StartEmulationThread
\* Faulty variant of StartBegin: the stop request is not cleared.
StartBegin_NoClear ==
  /\ pc["ui"] = "idle"
  /\ ~IsEmulationThreadRunning
  /\ cycles < MaxCycles
  /\ stop_request' = stop_request
  /\ joinable' = TRUE
  /\ wpc' = "create_imgui"
  /\ cycles' = cycles + 1
  /\ pc' = [pc EXCEPT !["ui"] = "start_wait"]
  /\ ret' = [ret EXCEPT !["ui"] = "none"]
  /\ fail_step' = "none"
  /\ signals' = 0
  /\ result_written' = FALSE
  /\ observed_stop' = FALSE
  /\ cycle_subs' = {}
  /\ run_after_stop' = 0
  /\ present_after_stop' = 0
  /\ UNCHANGED <<start_result, started, mutex, queue, callback, res,
                 blocking, nsub, execs, early, overlay, iter_log, reent>>

\* Lines 83-88: the precondition, the flag reset and the spawn of the worker.
StartBegin ==
  /\ pc["ui"] = "idle"
  /\ ~IsEmulationThreadRunning
  /\ cycles < MaxCycles
  /\ stop_request' = FALSE
  /\ joinable' = TRUE
  /\ wpc' = "create_imgui"
  /\ cycles' = cycles + 1
  /\ pc' = [pc EXCEPT !["ui"] = "start_wait"]
  /\ ret' = [ret EXCEPT !["ui"] = "none"]
  /\ fail_step' = "none"
  /\ signals' = 0
  /\ result_written' = FALSE
  /\ observed_stop' = FALSE
  /\ cycle_subs' = {}
  /\ run_after_stop' = 0
  /\ present_after_stop' = 0
  /\ UNCHANGED <<start_result, started, mutex, queue, callback, res,
                 blocking, nsub, execs, early, overlay, iter_log, reent>>

\* Faulty variant of StartWait: reads the start result without waiting.
StartWait_NoWait ==
  /\ pc["ui"] = "start_wait"
  /\ started' = EventAfterWait(started)
  /\ IF start_result
       THEN /\ pc' = [pc EXCEPT !["ui"] = "idle"]
            /\ ret' = [ret EXCEPT !["ui"] = "start_true"]
       ELSE /\ pc' = [pc EXCEPT !["ui"] = "start_join"]
            /\ ret' = ret
  /\ UNCHANGED <<joinable, stop_request, start_result, mutex, queue, wpc,
                 callback, res, blocking, nsub, cycles, execs, startHist,
                 observed_stop, subHist, overlay,
                 loopHist, reent>>

\* Lines 89-97: wait for the ready signal, then read the start result.
StartWait ==
  /\ pc["ui"] = "start_wait"
  /\ EventIsSet(started)
  /\ started' = EventAfterWait(started)
  /\ IF start_result
       THEN /\ pc' = [pc EXCEPT !["ui"] = "idle"]
            /\ ret' = [ret EXCEPT !["ui"] = "start_true"]
       ELSE /\ pc' = [pc EXCEPT !["ui"] = "start_join"]
            /\ ret' = ret
  /\ UNCHANGED <<joinable, stop_request, start_result, mutex, queue, wpc,
                 callback, res, blocking, nsub, cycles, execs, startHist,
                 observed_stop, subHist, overlay,
                 loopHist, reent>>

\* Lines 92-94: join the failed worker and return false.
StartJoin ==
  /\ pc["ui"] = "start_join"
  /\ wpc = "exited"
  /\ joinable' = FALSE
  /\ wpc' = "none"
  /\ pc' = [pc EXCEPT !["ui"] = "idle"]
  /\ ret' = [ret EXCEPT !["ui"] = "start_false"]
  /\ UNCHANGED <<stop_request, start_result, started, mutex, queue, callback,
                 res, blocking, nsub, cycles, execs, startHist, observed_stop,
                 subHist, overlay, loopHist,
                 reent>>

\* -------------------------------------------------- StopEmulationThread
\* Lines 102-104: the precondition and the store of the stop request.
StopBegin ==
  /\ pc["ui"] = "idle"
  /\ IsEmulationThreadRunning
  /\ stop_request' = TRUE
  /\ pc' = [pc EXCEPT !["ui"] = "stop_join"]
  /\ ret' = [ret EXCEPT !["ui"] = "none"]
  /\ UNCHANGED <<joinable, start_result, started, mutex, queue, wpc, callback,
                 res, blocking, nsub, cycles, execs, startHist, observed_stop,
                 subHist, overlay, loopHist,
                 reent>>

\* Faulty variant of StopJoin: lets go of the thread without waiting for it.
StopJoin_NoJoin ==
  /\ pc["ui"] = "stop_join"
  /\ joinable' = FALSE
  /\ wpc' = wpc
  /\ pc' = [pc EXCEPT !["ui"] = "idle"]
  /\ ret' = [ret EXCEPT !["ui"] = "stop"]
  /\ UNCHANGED <<stop_request, start_result, started, mutex, queue, callback,
                 res, blocking, nsub, cycles, execs, startHist, observed_stop,
                 subHist, overlay, loopHist,
                 reent>>

\* Line 105: join returns once the worker function has returned.
StopJoin ==
  /\ pc["ui"] = "stop_join"
  /\ wpc = "exited"
  /\ joinable' = FALSE
  /\ wpc' = "none"
  /\ pc' = [pc EXCEPT !["ui"] = "idle"]
  /\ ret' = [ret EXCEPT !["ui"] = "stop"]
  /\ UNCHANGED <<stop_request, start_result, started, mutex, queue, callback,
                 res, blocking, nsub, cycles, execs, startHist, observed_stop,
                 subHist, overlay, loopHist,
                 reent>>

\* ------------------------------------- EmulationThreadEntryPoint: start-up
\* What a worker step leaves alone unless stated otherwise.
LoopFrame ==
  UNCHANGED <<joinable, stop_request, pc, blocking, nsub, cycles, execs, ret,
              subHist, overlay, reent>>

\* The same for a worker step outside the loop body.
WorkerFrame == LoopFrame /\ UNCHANGED loopHist

\* Line 139.
CreateImGuiContext ==
  /\ wpc = "create_imgui"
  /\ imgui' = TRUE
  /\ wpc' = "create_display"
  /\ WorkerFrame
  /\ UNCHANGED <<start_result, started, mutex, queue, callback, display,
                 audio, system, startHist, observed_stop>>

\* Lines 142-145: AndroidGLESHostDisplay::Create succeeds or returns null.
CreateDisplay ==
  /\ wpc = "create_display"
  /\ \E ok \in BOOLEAN :
       IF ok THEN /\ display' = TRUE
                  /\ wpc' = "create_audio"
                  /\ fail_step' = fail_step
             ELSE /\ display' = FALSE
                  /\ wpc' = "unwind_imgui"
                  /\ fail_step' = "display"
  /\ WorkerFrame
  /\ UNCHANGED <<start_result, started, mutex, queue, callback, imgui, audio,
                 system, signals, result_written, observed_stop>>

\* Lines 153-154: AndroidAudioStream::Create succeeds or returns null.
CreateAudioStream ==
  /\ wpc = "create_audio"
  /\ \E ok \in BOOLEAN :
       IF ok THEN /\ audio' = TRUE
                  /\ wpc' = "reconfigure_audio"
                  /\ fail_step' = fail_step
             ELSE /\ audio' = FALSE
                  /\ wpc' = "unwind_audio"
                  /\ fail_step' = "audio"
  /\ WorkerFrame
  /\ UNCHANGED <<start_result, started, mutex, queue, callback, imgui,
                 display, system, signals, result_written, observed_stop>>

\* Line 154: m_audio_stream->Reconfigure(44100, 2).
ReconfigureAudio ==
  /\ wpc = "reconfigure_audio"
  /\ \E ok \in BOOLEAN :
       IF ok THEN /\ wpc' = "create_system"
                  /\ fail_step' = fail_step
             ELSE /\ wpc' = "unwind_audio"
                  /\ fail_step' = "reconfigure"
  /\ WorkerFrame
  /\ UNCHANGED <<start_result, started, mutex, queue, callback, res, signals,
                 result_written, observed_stop>>

\* Line 166: CreateSystem().
CreateSystem ==
  /\ wpc = "create_system"
  /\ \E ok \in BOOLEAN :
       IF ok THEN /\ system' = TRUE
                  /\ wpc' = "boot_system"
                  /\ fail_step' = fail_step
             ELSE /\ system' = system
                  /\ wpc' = "unwind_audio"
                  /\ fail_step' = "create_system"
  /\ WorkerFrame
  /\ UNCHANGED <<start_result, started, mutex, queue, callback, imgui,
                 display, audio, signals, result_written, observed_stop>>

\* Lines 166-167: BootSystem(filename, state_filename).
BootSystem ==
  /\ wpc = "boot_system"
  /\ \E ok \in BOOLEAN :
       IF ok THEN /\ wpc' = "store_result"
                  /\ fail_step' = fail_step
             ELSE /\ wpc' = "unwind_audio"
                  /\ fail_step' = "boot"
  /\ WorkerFrame
  /\ UNCHANGED <<start_result, started, mutex, queue, callback, res, signals,
                 result_written, observed_stop>>

\* Lines 157 and 171: m_audio_stream.reset() on a failed start.
UnwindAudio ==
  /\ wpc = "unwind_audio"
  /\ audio' = FALSE
  /\ wpc' = "unwind_display"
  /\ WorkerFrame
  /\ UNCHANGED <<start_result, started, mutex, queue, callback, imgui,
                 display, system, startHist, observed_stop>>

\* Faulty variant of UnwindDisplay: the display is not released.
UnwindDisplay_Leak ==
  /\ wpc = "unwind_display"
  /\ display' = display
  /\ wpc' = "unwind_imgui"
  /\ WorkerFrame
  /\ UNCHANGED <<start_result, started, mutex, queue, callback, imgui, audio,
                 system, startHist, observed_stop>>

\* Lines 158 and 172: m_display.reset() on a failed start.
UnwindDisplay ==
  /\ wpc = "unwind_display"
  /\ display' = FALSE
  /\ wpc' = "unwind_imgui"
  /\ WorkerFrame
  /\ UNCHANGED <<start_result, started, mutex, queue, callback, imgui, audio,
                 system, startHist, observed_stop>>

\* Lines 146, 159 and 173: DestroyImGuiContext() on a failed start.
UnwindImGui ==
  /\ wpc = "unwind_imgui"
  /\ imgui' = FALSE
  /\ wpc' = "store_result"
  /\ WorkerFrame
  /\ UNCHANGED <<start_result, started, mutex, queue, callback, display,
                 audio, system, startHist, observed_stop>>

\* Faulty variant of StoreStartResult: a failure path stores true.
StoreStartResult_AlwaysTrue ==
  /\ wpc = "store_result"
  /\ start_result' = TRUE
  /\ result_written' = TRUE
  /\ wpc' = "signal"
  /\ WorkerFrame
  /\ UNCHANGED <<started, mutex, queue, callback, res, fail_step, signals,
                 observed_stop>>

\* Lines 147, 160, 174 and 180: m_emulation_thread_start_result.store(...).
StoreStartResult ==
  /\ wpc = "store_result"
  /\ start_result' = (fail_step = "none")
  /\ result_written' = TRUE
  /\ wpc' = "signal"
  /\ WorkerFrame
  /\ UNCHANGED <<started, mutex, queue, callback, res, fail_step, signals,
                 observed_stop>>

\* Lines 148-149, 161-162, 175-176 and 181-183: Signal(), then either return
\* or go on to the frame loop.
SignalStarted ==
  /\ wpc = "signal"
  /\ started' = EventSignal(started)
  /\ signals' = signals + 1
  /\ wpc' = IF fail_step = "none" THEN "loop_test" ELSE "exited"
  /\ WorkerFrame
  /\ UNCHANGED <<start_result, mutex, queue, callback, res, fail_step,
                 result_written, observed_stop>>

\* ----------------------------------- EmulationThreadEntryPoint: frame loop
\* Faulty variant of LoopTest: the loop tests the start result instead of
\* the stop request.
LoopTest_WrongFlag ==
  /\ wpc = "loop_test"
  /\ IF ~start_result
       THEN /\ wpc' = "reset_display"
            /\ observed_stop' = TRUE
            /\ run_after_stop' = 0
            /\ present_after_stop' = 0
       ELSE /\ wpc' = "drain_lock"
            /\ observed_stop' = observed_stop
            /\ UNCHANGED <<run_after_stop, present_after_stop>>
  /\ iter_log' = iter_log
  /\ LoopFrame
  /\ UNCHANGED <<start_result, started, mutex, queue, callback, res,
                 startHist>>

\* Line 185: while (!m_emulation_thread_stop_request.load()).
LoopTest ==
  /\ wpc = "loop_test"
  /\ IF stop_request
       THEN /\ wpc' = "reset_display"
            /\ observed_stop' = TRUE
            /\ run_after_stop' = 0
            /\ present_after_stop' = 0
       ELSE /\ wpc' = "drain_lock"
            /\ observed_stop' = observed_stop
            /\ UNCHANGED <<run_after_stop, present_after_stop>>
  /\ iter_log' = iter_log
  /\ LoopFrame
  /\ UNCHANGED <<start_result, started, mutex, queue, callback, res,
                 startHist>>

\* Line 188: m_callback_mutex.lock() before the drain loop.
DrainLock ==
  /\ wpc = "drain_lock"
  /\ mutex = "free"
  /\ mutex' = "worker"
  /\ wpc' = "drain_test"
  /\ WorkerFrame
  /\ UNCHANGED <<start_result, started, queue, callback, res, startHist,
                 observed_stop>>

\* Faulty variant of DrainTest: the front entry is taken but not popped.
DrainTest_NoPop ==
  /\ wpc = "drain_test"
  /\ mutex = "worker"
  /\ IF queue = <<>>
       THEN /\ wpc' = "simulate"
            /\ iter_log' = Append(iter_log, "Drain")
            /\ UNCHANGED <<queue, callback>>
       ELSE /\ callback' = Head(queue)
            /\ queue' = queue
            /\ wpc' = "callback"
            /\ iter_log' = iter_log
  /\ mutex' = "free"
  /\ LoopFrame
  /\ UNCHANGED <<run_after_stop, present_after_stop>>
  /\ UNCHANGED <<start_result, started, res, startHist, observed_stop>>

\* Lines 191-196 and 200: with the lock held, either leave the drain loop and
\* unlock, or move the front entry out, pop it and unlock.
DrainTest ==
  /\ wpc = "drain_test"
  /\ mutex = "worker"
  /\ IF queue = <<>>
       THEN /\ wpc' = "simulate"
            /\ iter_log' = Append(iter_log, "Drain")
            /\ UNCHANGED <<queue, callback>>
       ELSE /\ callback' = Head(queue)
            /\ queue' = Tail(queue)
            /\ wpc' = "callback"
            /\ iter_log' = iter_log
  /\ mutex' = "free"
  /\ LoopFrame
  /\ UNCHANGED <<run_after_stop, present_after_stop>>
  /\ UNCHANGED <<start_result, started, res, startHist, observed_stop>>

\* Line 197: callback() is entered.
CallbackBegin ==
  /\ wpc = "callback"
  /\ execs' = [execs EXCEPT ![callback] = @ + 1]
  /\ wpc' = "callback_run"
  /\ UNCHANGED <<shared, mutex, queue, callback, res, pc, blocking, nsub,
                 cycles, ret, startHist, observed_stop, subHist, overlay,
                 loopHist, reent>>

\* Line 197: callback() returns.
CallbackEnd ==
  /\ wpc = "callback_run"
  /\ callback' = NoEntry
  /\ wpc' = "drain_relock"
  /\ WorkerFrame
  /\ UNCHANGED <<start_result, started, mutex, queue, res, startHist,
                 observed_stop>>

\* Faulty variant of DrainRelock: after one callback the worker leaves the
\* drain loop without testing the queue again.
DrainRelock_LeavesDrain ==
  /\ wpc = "drain_relock"
  /\ mutex = "free"
  /\ mutex' = "free"
  /\ wpc' = "simulate"
  /\ iter_log' = Append(iter_log, "Drain")
  /\ LoopFrame
  /\ UNCHANGED <<run_after_stop, present_after_stop>>
  /\ UNCHANGED <<start_result, started, queue, callback, res, startHist,
                 observed_stop>>

\* Line 198: m_callback_mutex.lock() after a callback.
DrainRelock ==
  /\ wpc = "drain_relock"
  /\ mutex = "free"
  /\ mutex' = "worker"
  /\ wpc' = "drain_test"
  /\ WorkerFrame
  /\ UNCHANGED <<start_result, started, queue, callback, res, startHist,
                 observed_stop>>

\* A step of the loop body from one position to the next that makes the
\* reads and calls `events`.
LoopStep(from, to, events) ==
  /\ wpc = from
  /\ wpc' = to
  /\ iter_log' = iter_log \o events
  /\ LoopFrame
  /\ UNCHANGED <<start_result, started, mutex, queue, callback, res,
                 startHist, observed_stop>>

\* The counter n after one more event, if the stop request is already stored.
AfterStop(n, happened) ==
  IF happened /\ stop_request /\ n < 2 THEN n + 1 ELSE n

\* Lines 203-204: if (m_system && !m_paused) m_system->RunFrame().
Simulate ==
  \E m_paused \in BOOLEAN :
    /\ LoopStep("simulate", "draw_imgui",
                IF system /\ ~m_paused THEN <<"RunFrame">> ELSE <<"Paused">>)
    /\ run_after_stop' = AfterStop(run_after_stop, system /\ ~m_paused)
    /\ present_after_stop' = present_after_stop

\* Line 208.
DrawImGui ==
  /\ LoopStep("draw_imgui", "reset_api", <<"DrawImGui">>)
  /\ UNCHANGED <<run_after_stop, present_after_stop>>

\* Faulty variant of ResetGraphicsAPIState: the reset is left out.
ResetGraphicsAPIState_Skipped ==
  /\ LoopStep("reset_api", "present", <<>>)
  /\ UNCHANGED <<run_after_stop, present_after_stop>>

\* Lines 210-211: if (m_system) ResetGraphicsAPIState().
ResetGraphicsAPIState ==
  /\ LoopStep("reset_api", "present",
              IF system THEN <<"ResetGraphicsAPIState">> ELSE <<>>)
  /\ UNCHANGED <<run_after_stop, present_after_stop>>

\* Lines 213-216: ImGui::Render(), m_display->Render(), ImGui::NewFrame().
Present ==
  /\ LoopStep("present", "restore_api", <<"Render">>)
  /\ present_after_stop' = AfterStop(present_after_stop, TRUE)
  /\ run_after_stop' = run_after_stop

\* Lines 218-220: if (m_system) RestoreGraphicsAPIState().
RestoreGraphicsAPIState ==
  /\ LoopStep("restore_api", "throttle",
              IF system THEN <<"RestoreGraphicsAPIState">> ELSE <<>>)
  /\ UNCHANGED <<run_after_stop, present_after_stop>>

\* Lines 218-223: if (m_system && m_speed_limiter_enabled) Throttle().
ThrottleStep ==
  \E m_speed_limiter_enabled \in BOOLEAN :
    /\ LoopStep("throttle", "update_counters",
                IF system /\ m_speed_limiter_enabled THEN <<"Throttle">>
                                                     ELSE <<"Unthrottled">>)
    /\ UNCHANGED <<run_after_stop, present_after_stop>>

\* Line 226: the last step of an iteration, which ends its log.
UpdatePerformanceCounters ==
  /\ wpc = "update_counters"
  /\ wpc' = "loop_test"
  /\ iter_log' = <<>>
  /\ LoopFrame
  /\ UNCHANGED <<start_result, started, mutex, queue, callback, res,
                 startHist, observed_stop, run_after_stop, present_after_stop>>

\* Line 230: m_display.reset() after the loop.
ResetDisplay ==
  /\ wpc = "reset_display"
  /\ display' = FALSE
  /\ wpc' = "reset_audio"
  /\ WorkerFrame
  /\ UNCHANGED <<start_result, started, mutex, queue, callback, imgui, audio,
                 system, startHist, observed_stop>>

\* Line 231: m_audio_stream.reset() after the loop.
ResetAudio ==
  /\ wpc = "reset_audio"
  /\ audio' = FALSE
  /\ wpc' = "destroy_imgui"
  /\ WorkerFrame
  /\ UNCHANGED <<start_result, started, mutex, queue, callback, imgui,
                 display, system, startHist, observed_stop>>

\* Lines 232-233: DestroyImGuiContext(), then the thread function returns.
DestroyImGuiContext ==
  /\ wpc = "destroy_imgui"
  /\ imgui' = FALSE
  /\ wpc' = "exited"
  /\ WorkerFrame
  /\ UNCHANGED <<start_result, started, mutex, queue, callback, display,
                 audio, system, startHist, observed_stop>>

\* ------------------------------------------------- RunOnEmulationThread
\* What a submitter step leaves alone unless stated otherwise.
CallerFrame ==
  UNCHANGED <<shared, wpc, callback, res, cycles, startHist, observed_stop,
              overlay, loopHist, reent>>

\* Line 111: the call, and its test of IsEmulationThreadRunning().
SubmitCall(t) ==
  /\ pc[t] = "idle"
  /\ nsub[t] < MaxSubmits
  /\ nsub' = [nsub EXCEPT ![t] = @ + 1]
  /\ \E b \in BOOLEAN : blocking' = [blocking EXCEPT ![t] = b]
  /\ pc' = [pc EXCEPT ![t] = IF IsEmulationThreadRunning THEN "lock" ELSE "inline"]
  /\ ret' = [ret EXCEPT ![t] = "none"]
  /\ early' = IF observed_stop THEN early ELSE early \cup {<<t, nsub[t] + 1>>}
  /\ CallerFrame
  /\ UNCHANGED <<mutex, queue, execs, cycle_subs>>

\* Faulty variant of InlineBegin: the entry is run and also appended.
InlineBegin_AlsoQueues(t) ==
  /\ pc[t] = "inline"
  /\ execs' = [execs EXCEPT ![CurEntry(t)] = @ + 1]
  /\ queue' = Append(queue, CurEntry(t))
  /\ pc' = [pc EXCEPT ![t] = "inline_run"]
  /\ CallerFrame
  /\ UNCHANGED <<mutex, blocking, nsub, ret, subHist, overlay, loopHist,
                 reent>>

\* Line 113: function() is entered on the calling thread.
InlineBegin(t) ==
  /\ pc[t] = "inline"
  /\ execs' = [execs EXCEPT ![CurEntry(t)] = @ + 1]
  /\ pc' = [pc EXCEPT ![t] = "inline_run"]
  /\ CallerFrame
  /\ UNCHANGED <<mutex, queue, blocking, nsub, ret, subHist, overlay, loopHist,
                 reent>>

\* Lines 113-114: function() returns and so does the call.
InlineEnd(t) ==
  /\ pc[t] = "inline_run"
  /\ pc' = [pc EXCEPT ![t] = "idle"]
  /\ ret' = [ret EXCEPT ![t] = "inline"]
  /\ CallerFrame
  /\ UNCHANGED <<mutex, queue, blocking, nsub, execs, subHist, overlay, loopHist,
                 reent>>

\* Lines 117-120: lock, push_back, and the test of `blocking`.
LockAndPush(t) ==
  /\ pc[t] = "lock"
  /\ mutex = "free"
  /\ mutex' = t
  /\ queue' = Append(queue, CurEntry(t))
  /\ pc' = [pc EXCEPT ![t] = IF blocking[t] THEN "spin" ELSE "unlock"]
  /\ cycle_subs' = IF t = "ui" /\ ~blocking[t]
                     THEN cycle_subs \cup {CurEntry(t)} ELSE cycle_subs
  /\ CallerFrame
  /\ UNCHANGED <<blocking, nsub, execs, ret, early>>

\* Faulty variant of SpinTest: leaves the spin loop without testing the queue.
SpinTest_NoCheck(t) ==
  /\ pc[t] = "spin"
  /\ mutex = t
  /\ pc' = [pc EXCEPT ![t] = "unlock"]
  /\ mutex' = mutex
  /\ CallerFrame
  /\ UNCHANGED <<queue, blocking, nsub, execs, ret, subHist, overlay, loopHist,
                 reent>>

\* Lines 125-128: with the lock held, leave the spin loop if the queue is
\* empty, otherwise unlock.
SpinTest(t) ==
  /\ pc[t] = "spin"
  /\ mutex = t
  /\ IF queue = <<>>
       THEN /\ pc' = [pc EXCEPT ![t] = "unlock"]
            /\ mutex' = mutex
       ELSE /\ pc' = [pc EXCEPT ![t] = "relock"]
            /\ mutex' = "free"
  /\ CallerFrame
  /\ UNCHANGED <<queue, blocking, nsub, execs, ret, subHist, overlay, loopHist,
                 reent>>

\* Line 129: m_callback_mutex.lock() inside the spin loop.
SpinRelock(t) ==
  /\ pc[t] = "relock"
  /\ mutex = "free"
  /\ mutex' = t
  /\ pc' = [pc EXCEPT ![t] = "spin"]
  /\ CallerFrame
  /\ UNCHANGED <<queue, blocking, nsub, execs, ret, subHist, overlay, loopHist,
                 reent>>

\* Lines 133-134: the final unlock and the return.
UnlockAndReturn(t) ==
  /\ pc[t] = "unlock"
  /\ mutex = t
  /\ mutex' = "free"
  /\ pc' = [pc EXCEPT ![t] = "idle"]
  /\ ret' = [ret EXCEPT ![t] = "queued"]
  /\ CallerFrame
  /\ UNCHANGED <<queue, blocking, nsub, execs, subHist, overlay, loopHist,
                 reent>>

\* -------------------------- RunOnEmulationThread called from a callback
\* What a nested call on the worker leaves alone unless stated otherwise.
NestedFrame ==
  UNCHANGED <<shared, callback, res, pc, blocking, nsub, cycles, ret,
              startHist, observed_stop, subHist, overlay, loopHist>>

NestedEntry == <<"worker", nested>>

\* Lines 109-115: a callback running on the worker calls
\* RunOnEmulationThread; the worker tests IsEmulationThreadRunning().
NestedCall ==
  /\ wpc = "callback_run"
  /\ nested < MaxNested
  /\ nested' = nested + 1
  /\ \E b \in BOOLEAN : cb_blocking' = b
  /\ IF IsEmulationThreadRunning
       THEN /\ wpc' = "cb_lock"
            /\ execs' = execs
       ELSE /\ wpc' = wpc
            /\ execs' = [execs EXCEPT ![<<"worker", nested + 1>>] = @ + 1]
  /\ NestedFrame
  /\ UNCHANGED <<mutex, queue>>

\* Lines 117-120 on the worker.
NestedLockAndPush ==
  /\ wpc = "cb_lock"
  /\ mutex = "free"
  /\ mutex' = "worker"
  /\ queue' = Append(queue, NestedEntry)
  /\ wpc' = IF cb_blocking THEN "cb_spin" ELSE "cb_unlock"
  /\ NestedFrame
  /\ UNCHANGED <<execs, reent>>

\* Lines 125-128 on the worker.
NestedSpinTest ==
  /\ wpc = "cb_spin"
  /\ mutex = "worker"
  /\ IF queue = <<>>
       THEN /\ wpc' = "cb_unlock"
            /\ mutex' = mutex
       ELSE /\ wpc' = "cb_relock"
            /\ mutex' = "free"
  /\ NestedFrame
  /\ UNCHANGED <<queue, execs, reent>>

\* Line 129 on the worker.
NestedSpinRelock ==
  /\ wpc = "cb_relock"
  /\ mutex = "free"
  /\ mutex' = "worker"
  /\ wpc' = "cb_spin"
  /\ NestedFrame
  /\ UNCHANGED <<queue, execs, reent>>

\* Lines 133-134 on the worker: unlock and return into the callback.
NestedUnlockAndReturn ==
  /\ wpc = "cb_unlock"
  /\ mutex = "worker"
  /\ mutex' = "free"
  /\ wpc' = "callback_run"
  /\ NestedFrame
  /\ UNCHANGED <<queue, execs, reent>>

Nested ==
  \/ NestedCall \/ NestedLockAndPush \/ NestedSpinTest \/ NestedSpinRelock
  \/ NestedUnlockAndReturn

\* ------------------------------------------------------- DrawFPSWindow
\* Line 304: static_cast<u32>(std::round(m_speed)), halves away from zero.
RoundSpeed(s) == (2 * s + SpeedUnit) \div (2 * SpeedUnit)

\* Faulty variant of SpeedBand: the upper threshold is inclusive.
SpeedBand_Inclusive(s) ==
  IF s < SlowLimit * SpeedUnit THEN "slow"
  ELSE IF s <= FastLimit * SpeedUnit THEN "nominal"
  ELSE "fast"

\* Lines 305-310: the colour of the speed figure.
SpeedBand(s) ==
  IF s < SlowLimit * SpeedUnit THEN "slow"
  ELSE IF s < FastLimit * SpeedUnit THEN "nominal"
  ELSE "fast"

\* What an overlay step leaves alone: everything but m_speed and fps_window.
OverlayFrame ==
  UNCHANGED <<shared, mutex, queue, wpc, callback, res, pc, blocking, nsub,
              cycles, execs, ret, startHist, observed_stop, subHist, loopHist, reent>>

\* Lines 293-311: the speed figure of DrawFPSWindow.
DrawFPSWindow ==
  /\ fps_window' = [speed |-> m_speed, rounded |-> RoundSpeed(m_speed),
                    band |-> SpeedBand(m_speed)]
  /\ m_speed' = m_speed
  /\ OverlayFrame

\* The overlay on its own: m_speed holds any value UpdatePerformanceCounters
\* (line 226) may have stored, and DrawFPSWindow draws it.
OverlayInit ==
  /\ InitCore
  /\ m_speed \in 0..(MaxSpeed * SpeedUnit)
  /\ fps_window = NotDrawn

OverlayNext == DrawFPSWindow

OverlaySpec == OverlayInit /\ [][OverlayNext]_vars

\* ---------------------------------------------------------- specification
Lifecycle == StartBegin \/ StartWait \/ StartJoin \/ StopBegin \/ StopJoin

Startup ==
  \/ CreateImGuiContext \/ CreateDisplay \/ CreateAudioStream
  \/ ReconfigureAudio \/ CreateSystem \/ BootSystem
  \/ UnwindAudio \/ UnwindDisplay \/ UnwindImGui
  \/ StoreStartResult \/ SignalStarted

FrameLoop ==
  \/ LoopTest \/ DrainLock \/ DrainTest \/ CallbackBegin \/ CallbackEnd
  \/ DrainRelock \/ Simulate \/ DrawImGui \/ ResetGraphicsAPIState
  \/ Present \/ RestoreGraphicsAPIState \/ ThrottleStep
  \/ UpdatePerformanceCounters
  \/ ResetDisplay \/ ResetAudio \/ DestroyImGuiContext

Worker == Startup \/ FrameLoop

Submitter(t) ==
  \/ SubmitCall(t) \/ InlineBegin(t) \/ InlineEnd(t) \/ LockAndPush(t)
  \/ SpinTest(t) \/ SpinRelock(t) \/ UnlockAndReturn(t)

Next == Lifecycle \/ Worker \/ \E t \in Threads : Submitter(t)

Spec == Init /\ [][Next]_vars

\* The same program with callbacks that call RunOnEmulationThread themselves.
ReentrantNext == Next \/ Nested

ReentrantSpec == Init /\ [][ReentrantNext]_vars

\* Fair scheduling: the worker and every call in progress keep taking steps,
\* and a thread waiting for m_callback_mutex gets it if it is free again and
\* again.  Whether StartEmulationThread, StopEmulationThread or
\* RunOnEmulationThread is called at all is up to the host.
InProgress(t) ==
  \/ InlineBegin(t) \/ InlineEnd(t) \/ SpinTest(t) \/ UnlockAndReturn(t)

Fairness ==
  /\ WF_vars(Startup)
  /\ WF_vars(LoopTest \/ DrainTest \/ CallbackBegin \/ CallbackEnd)
  /\ WF_vars(Simulate \/ DrawImGui \/ ResetGraphicsAPIState \/ Present
             \/ RestoreGraphicsAPIState \/ ThrottleStep
             \/ UpdatePerformanceCounters)
  /\ WF_vars(ResetDisplay \/ ResetAudio \/ DestroyImGuiContext)
  /\ SF_vars(DrainLock \/ DrainRelock)
  /\ WF_vars(StartWait \/ StartJoin \/ StopJoin)
  /\ \A t \in Threads :
       /\ WF_vars(InProgress(t))
       /\ SF_vars(LockAndPush(t) \/ SpinRelock(t))

LiveSpec == Spec /\ Fairness

\* ------------------------------------------------------------ properties
InQueue(e) == Cardinality({i \in DOMAIN queue : queue[i] = e})
Held(e) == IF wpc = "callback" /\ callback = e THEN 1 ELSE 0
Submitted(e) == e[2] <= (IF e[1] = "worker" THEN nested ELSE nsub[e[1]])
Executed(e) == execs[e] >= 1
Released == ~imgui /\ ~display /\ ~audio

\* C1: every entry whose RunOnEmulationThread call was made before the worker
\* observed the stop request is eventually executed.
C1_SubmitLiveness ==
  \A e \in Entries : [](e \in early => <>Executed(e))

\* C2: when StopEmulationThread returns, every command the caller submitted
\* non-blocking while the worker was running, before calling Stop, has executed.
C2_StopDrains ==
  ret["ui"] = "stop" => \A e \in cycle_subs : Executed(e)

\* C3: an entry is in exactly one of the states not-yet-submitted, queued,
\* removed-and-executed: it is never executed twice, never queued twice and
\* never in the queue once the worker has removed it or its execution began.
C3_ExactlyOnce ==
  \A e \in Entries :
    /\ InQueue(e) + Held(e) + execs[e] <= 1
    /\ ~Submitted(e) => InQueue(e) + Held(e) + execs[e] = 0
C3_Witness ==
  /\ cycles = 2
  /\ wpc = "callback_run"
  /\ execs[callback] = 1
  /\ \E e \in Threads \X (1..MaxSubmits) :
       e # callback /\ Executed(e) /\ ret[e[1]] = "queued"

\* C4: for one submitting thread, a later entry never begins executing before
\* an earlier one has begun.
C4_PerCallerFIFO ==
  \A t \in Threads : \A n \in 2..MaxSubmits :
    Executed(<<t, n>>) => Executed(<<t, n - 1>>)

\* C5: StartEmulationThread returns true if and only if every start-up step
\* succeeded (display, audio stream and its reconfiguration, system, boot).
C5_StartResult ==
  /\ ret["ui"] = "start_true" => fail_step = "none" /\ display /\ audio /\ system
  /\ ret["ui"] = "start_false" => fail_step # "none"
C5_Witness ==
  /\ cycles = 2
  /\ ret["ui"] = "start_true"
  /\ wpc = "simulate"

\* C6: when StartEmulationThread returns false the worker has exited and been
\* joined and holds no overlay context, display or audio stream.
C6_FailedStartUnwound ==
  ret["ui"] = "start_false" =>
    ~IsEmulationThreadRunning /\ wpc = "none" /\ Released
C6_Witness ==
  ret["ui"] = "start_false" /\ fail_step = "boot"

\* C7: per start cycle the worker signals once, stores the start result before
\* it signals, is fully initialised or fully unwound when it signals, and
\* StartEmulationThread does not get past its wait before the signal.
C7_Rendezvous ==
  /\ signals <= 1
  /\ wpc = "signal" =>
       /\ signals = 0
       /\ result_written
       /\ start_result = (fail_step = "none")
       /\ IF fail_step = "none" THEN imgui /\ display /\ audio /\ system
                                ELSE Released
  /\ wpc \in {"create_imgui", "create_display", "create_audio",
              "reconfigure_audio", "create_system", "boot_system",
              "unwind_audio", "unwind_display", "unwind_imgui",
              "store_result"} => signals = 0 /\ pc["ui"] = "start_wait"
  /\ pc["ui"] = "start_join" \/ ret["ui"] \in {"start_true", "start_false", "stop"}
       => signals = 1
C7_Witness ==
  /\ cycles = 2
  /\ wpc = "signal"
  /\ fail_step = "reconfigure"

\* C8: when StopEmulationThread returns the worker has exited and been joined
\* and the display, the audio stream and the overlay context are released.
C8_StopJoins ==
  ret["ui"] = "stop" => ~IsEmulationThreadRunning /\ wpc = "none" /\ Released
C8_Witness ==
  ret["ui"] = "stop" /\ cycles = 2

\* C9: a blocking call on the queued path is about to return only while it
\* holds the lock and sees the queue empty.
C9_BlockingSeesEmpty ==
  \A t \in Threads :
    pc[t] = "unlock" /\ blocking[t] => mutex = t /\ queue = <<>>
C9_Witness ==
  \E t \in Threads :
    pc[t] = "unlock" /\ blocking[t] /\ Executed(CurEntry(t)) /\ wpc = "callback_run"

\* C10: a call that found no worker runs its entry once on the caller before
\* returning, and no step of that call changes the queue or the lock.
C10_InlineStep(t) ==
  /\ (pc[t] = "idle" /\ pc'[t] = "inline") => queue' = queue /\ mutex' = mutex
  /\ (pc[t] = "inline" /\ pc'[t] # "inline") =>
       /\ pc'[t] = "inline_run"
       /\ execs'[CurEntry(t)] = execs[CurEntry(t)] + 1
       /\ queue' = queue /\ mutex' = mutex
  /\ (pc[t] = "inline_run" /\ pc'[t] # "inline_run") =>
       /\ pc'[t] = "idle"
       /\ execs[CurEntry(t)] = 1
       /\ InQueue(CurEntry(t)) = 0
       /\ queue' = queue /\ mutex' = mutex
C10_Inline == [][\A t \in Threads : C10_InlineStep(t)]_vars
C10_Witness ==
  \E t \in Threads :
    ret[t] = "inline" /\ blocking[t] /\ execs[CurEntry(t)] = 1 /\ queue # <<>>

InCallback ==
  wpc \in {"callback_run", "cb_lock", "cb_spin", "cb_relock", "cb_unlock"}
Finished(e) ==
  /\ Executed(e)
  /\ ~(InCallback /\ callback = e)
  /\ \A t \in Threads : ~(pc[t] = "inline_run" /\ CurEntry(t) = e)
WorkerActive == wpc \notin {"none", "exited"}

\* C11: while a worker thread is active no entry is executing on a thread
\* other than the worker.
C11_WorkerOnly ==
  WorkerActive => \A t \in Threads : pc[t] # "inline_run"

\* C15: resources are released in the reverse of their acquisition order:
\* the audio stream is never held without the display, nor the display
\* without the overlay context.
C15_ReverseRelease ==
  /\ audio => display
  /\ display => imgui

\* An entry whose push_back (line 118) has happened.
Appended(e) ==
  /\ Submitted(e)
  /\ e[1] \in Threads =>
       ~(CurEntry(e[1]) = e /\ pc[e[1]] \in {"inline", "inline_run", "lock"})
  /\ e[1] = "worker" => ~(NestedEntry = e /\ wpc = "cb_lock")
  /\ InQueue(e) > 0 \/ Held(e) > 0 \/ Executed(e)

\* C16: the worker's drain does not hold the queue lock between taking an
\* entry and re-locking after it (so others, and the command itself, can
\* append meanwhile), and the drain moves on to the Simulate step only with
\* the queue empty and every appended entry executed.
C16_DrainStep ==
  /\ wpc \in {"callback", "callback_run", "cb_lock", "drain_relock"}
       => mutex # "worker"
  /\ (wpc # "simulate" /\ wpc' = "simulate")
       => /\ queue = <<>>
          /\ \A e \in Entries : Appended(e) => Executed(e)

C16_DrainUnlocked == [][C16_DrainStep]_vars

\* C16's case: an entry the running command appended itself is now being
\* executed in the same drain, while another thread has just appended.
C16_Witness ==
  /\ wpc = "callback_run"
  /\ callback = <<"worker", 1>>
  /\ ~cb_blocking
  /\ \E t \in Threads : pc[t] = "unlock" /\ mutex = t

\* C17: when a blocking call that queued its entry has returned, the entry
\* has finished executing.
C17_BlockingDone ==
  \A t \in Threads :
    pc[t] = "idle" /\ ret[t] = "queued" /\ blocking[t] => Finished(CurEntry(t))

\* C18: every blocking call that took the queued path eventually returns.
C18_BlockingReturns ==
  \A t \in Threads :
    [](pc[t] \in {"lock", "spin", "relock"} /\ blocking[t] => <>(pc[t] = "idle"))

\* C19: whenever no worker thread is active the command queue is empty.
C19_QueueEmptyWhenIdle ==
  ~IsEmulationThreadRunning => queue = <<>>

\* C20: a stop request never carries over: while a worker thread exists and
\* StopEmulationThread has not been called in this cycle, the flag is false,
\* so the first test of a restarted worker reads false.
C20_NoStaleStop ==
  IsEmulationThreadRunning /\ pc["ui"] # "stop_join" => ~stop_request
C20_Witness ==
  /\ cycles = 2
  /\ ret["ui"] = "start_true"
  /\ wpc = "drain_lock"
  /\ ~stop_request

Percent(p) == p * SpeedUnit
Drawn == fps_window.band # "none"

\* C12 as stated: below 90 is slow, 90 to 110 inclusive is nominal, above
\* 110 is fast.
C12_BandsInclusive ==
  Drawn =>
    /\ fps_window.speed < Percent(SlowLimit) => fps_window.band = "slow"
    /\ fps_window.speed >= Percent(SlowLimit)
         /\ fps_window.speed <= Percent(FastLimit) => fps_window.band = "nominal"
    /\ fps_window.speed > Percent(FastLimit) => fps_window.band = "fast"

\* C12 as amended: below 90 is slow, from 90 up to but not including 110 is
\* nominal, 110 and above is fast.
C12_Bands ==
  Drawn =>
    /\ fps_window.speed < Percent(SlowLimit) => fps_window.band = "slow"
    /\ fps_window.speed >= Percent(SlowLimit)
         /\ fps_window.speed < Percent(FastLimit) => fps_window.band = "nominal"
    /\ fps_window.speed >= Percent(FastLimit) => fps_window.band = "fast"
C12_Witness ==
  /\ m_speed = Percent(FastLimit)
  /\ fps_window.speed = Percent(FastLimit)
  /\ fps_window.band = "fast"

StageEvents ==
  << {"Drain"}, {"RunFrame", "Paused"}, {"DrawImGui"},
     {"ResetGraphicsAPIState"}, {"Render"}, {"RestoreGraphicsAPIState"},
     {"Throttle", "Unthrottled"} >>
StagesDone ==
  CASE wpc = "simulate" -> 1
    [] wpc = "draw_imgui" -> 2
    [] wpc = "reset_api" -> 3
    [] wpc = "present" -> 4
    [] wpc = "restore_api" -> 5
    [] wpc = "throttle" -> 6
    [] wpc = "update_counters" -> 7
    [] OTHER -> 0

\* C13: an iteration performs, in this order, the drain, one RunFrame or
\* none if paused, the overlay, ResetGraphicsAPIState, the present,
\* RestoreGraphicsAPIState, Throttle if enabled, and then the metrics update.
C13_IterationOrder ==
  /\ Len(iter_log) = StagesDone
  /\ \A i \in DOMAIN iter_log : iter_log[i] \in StageEvents[i]
C13_Witness ==
  /\ cycles = 2
  /\ wpc = "update_counters"
  /\ iter_log = << "Drain", "Paused", "DrawImGui", "ResetGraphicsAPIState",
                   "Render", "RestoreGraphicsAPIState", "Throttle" >>

\* C14: once the stop request is stored the worker performs at most one more
\* RunFrame and one more present, and after it has read the request it is
\* never in the loop again.
C14_StopBounded ==
  /\ run_after_stop <= 1
  /\ present_after_stop <= 1
  /\ observed_stop =>
       wpc \in {"reset_display", "reset_audio", "destroy_imgui", "exited", "none"}
C14_Witness ==
  /\ stop_request
  /\ wpc = "update_counters"
  /\ run_after_stop = 1
  /\ present_after_stop = 1

====
